---------------------------- MODULE Spec2Model ----------------------------
(***************************************************************************)
(* A model of galaxykit's GalaxyClient (src/galaxykit/client.py): the      *)
(* constructor with its token exchange and container-engine session, the   *)
(* HTTP primitives get / post / put with their JSON decoding and error     *)
(* check, and the container-image passthroughs.                            *)
(*                                                                         *)
(* Python values are tagged records [t |-> <type>, v |-> <value>].         *)
(* A dict is a sequence of <<key, value>> pairs with unique keys, in        *)
(* insertion order.  Request-body text is a sequence of Unicode code       *)
(* points, bytes are a sequence of 0..255.  A URL is the record urlparse   *)
(* gives: scheme, netloc (its ":"-separated parts) and path (its           *)
(* "/"-separated segments, as str.split("/") returns them).                *)
(***************************************************************************)
EXTENDS Integers, Sequences, FiniteSets, TLC

\* Longest text used as a value of a mapping body.
MaxTextLen == 1

(***************************************************************************)
(* Python values                                                           *)
(***************************************************************************)
None == [t |-> "None"]

PyStr(s) == [t |-> "str", v |-> s]

\* An int keeps its number in a field of its own: n.
PyInt(n) == [t |-> "int", n |-> n]

PyBytes(b) == [t |-> "bytes", v |-> b]

PyDict(d) == [t |-> "dict", v |-> d]

PyList(l) == [t |-> "list", v |-> l]

\* Python's ==: values of different types are never equal.
PyEq(a, b) == a.t = b.t /\ a = b

\* Truthiness of the values the constructor tests (None, str, tuple).
Truthy(x) ==
    CASE x.t = "None" -> FALSE
      [] x.t = "str" -> x.v # ""
      [] OTHER -> x.v # <<>>

Returned(v) == [kind |-> "return", value |-> v, exc |-> "", msg |-> PyStr("")]

Raised(e, m) == [kind |-> "raise", value |-> None, exc |-> e, msg |-> m]

NoOutcome == [kind |-> "none", value |-> None, exc |-> "", msg |-> PyStr("")]

(***************************************************************************)
(* dict                                                                    *)
(***************************************************************************)
DictHas(d, k) == \E i \in 1..Len(d) : d[i][1] = k

DictGet(d, k) == d[CHOOSE i \in 1..Len(d) : d[i][1] = k][2]

\* d[k] = v: an existing key keeps its place, a new one goes last.
DictSet(d, k, v) ==
    IF DictHas(d, k)
    THEN [i \in 1..Len(d) |-> IF d[i][1] = k THEN <<k, v>> ELSE d[i]]
    ELSE Append(d, <<k, v>>)

\* {**a, **b} and a.update(b): b's pairs set onto a, in b's order.
RECURSIVE DictMerge(_, _)
DictMerge(a, b) ==
    IF b = <<>> THEN a
    ELSE DictMerge(DictSet(a, b[1][1], b[1][2]), Tail(b))

(***************************************************************************)
(* str(int) and the hexadecimal digits of a JSON escape                    *)
(***************************************************************************)
DecDigit(d) ==
    CASE d = 0 -> "0" [] d = 1 -> "1" [] d = 2 -> "2" [] d = 3 -> "3"
      [] d = 4 -> "4" [] d = 5 -> "5" [] d = 6 -> "6" [] d = 7 -> "7"
      [] d = 8 -> "8" [] d = 9 -> "9"

\* str(n) for n >= 0, as a string.
RECURSIVE PyStrInt(_)
PyStrInt(n) ==
    IF n < 10 THEN DecDigit(n) ELSE PyStrInt(n \div 10) \o DecDigit(n % 10)

\* str(n) for n >= 0, as code points.
RECURSIVE DecText(_)
DecText(n) ==
    IF n < 10 THEN <<48 + n>> ELSE Append(DecText(n \div 10), 48 + (n % 10))

HexChar(d) == IF d < 10 THEN 48 + d ELSE 87 + d

\* '\\u{0:04x}'.format(n)
EscapeU(n) ==
    <<92, 117, HexChar((n \div 4096) % 16), HexChar((n \div 256) % 16),
      HexChar((n \div 16) % 16), HexChar(n % 16)>>

(***************************************************************************)
(* simplejson.dumps with its defaults: ensure_ascii, separators ", " ": "  *)
(***************************************************************************)
EscapeChar(c) ==
    CASE c = 34 -> <<92, 34>>
      [] c = 92 -> <<92, 92>>
      [] c = 10 -> <<92, 110>>
      [] c = 13 -> <<92, 114>>
      [] c = 9 -> <<92, 116>>
      [] c = 12 -> <<92, 102>>
      [] c = 8 -> <<92, 98>>
      [] OTHER ->
           IF c >= 32 /\ c <= 126 THEN <<c>>
           ELSE IF c < 65536 THEN EscapeU(c)
           ELSE EscapeU(55296 + (((c - 65536) \div 1024) % 1024))
                \o EscapeU(56320 + ((c - 65536) % 1024))

RECURSIVE EscapeText(_)
EscapeText(s) ==
    IF s = <<>> THEN <<>> ELSE EscapeChar(Head(s)) \o EscapeText(Tail(s))

EncodeString(s) == <<34>> \o EscapeText(s) \o <<34>>

\* A value of a mapping body: a str or an int.
EncodeValue(x) == IF x.t = "int" THEN DecText(x.n) ELSE EncodeString(x.v)

RECURSIVE EncodeItems(_)
EncodeItems(d) ==
    IF d = <<>> THEN <<>>
    ELSE EncodeString(d[1][1]) \o <<58, 32>> \o EncodeValue(d[1][2])
         \o (IF Len(d) > 1 THEN <<44, 32>> ELSE <<>>) \o EncodeItems(Tail(d))

dumps(d) == <<123>> \o EncodeItems(d) \o <<125>>

(***************************************************************************)
(* str.encode('utf8')                                                      *)
(***************************************************************************)
Utf8Char(c) ==
    IF c < 128 THEN <<c>>
    ELSE IF c < 2048 THEN <<192 + (c \div 64), 128 + (c % 64)>>
    ELSE IF c < 65536
         THEN <<224 + (c \div 4096), 128 + ((c \div 64) % 64), 128 + (c % 64)>>
    ELSE <<240 + (c \div 262144), 128 + ((c \div 4096) % 64),
           128 + ((c \div 64) % 64), 128 + (c % 64)>>

RECURSIVE encode_utf8(_)
encode_utf8(s) ==
    IF s = <<>> THEN <<>> ELSE Utf8Char(Head(s)) \o encode_utf8(Tail(s))

(***************************************************************************)
(* Response bodies and Response.json().  A body is a sequence of lexical   *)
(* tokens; loads is the JSON grammar over them: a value, and nothing after *)
(* it.                                                                     *)
(***************************************************************************)
Tk(k) == [k |-> k, s |-> "", n |-> 0]

TStr(s) == [k |-> "str", s |-> s, n |-> 0]

TInt(n) == [k |-> "int", s |-> "", n |-> n]

ParseFail == [ok |-> FALSE, val |-> None, rest |-> <<>>]

ParseOk(v, rest) == [ok |-> TRUE, val |-> v, rest |-> rest]

RECURSIVE ParseValue(_), ParseElements(_, _), ParseMembers(_, _)
ParseValue(ts) ==
    IF ts = <<>> THEN ParseFail
    ELSE LET h == Head(ts) IN
         CASE h.k = "str" -> ParseOk(PyStr(h.s), Tail(ts))
           [] h.k = "int" -> ParseOk(PyInt(h.n), Tail(ts))
           [] h.k = "[" ->
                IF Len(ts) >= 2 /\ ts[2].k = "]"
                THEN ParseOk(PyList(<<>>), Tail(Tail(ts)))
                ELSE ParseElements(Tail(ts), <<>>)
           [] h.k = "{" ->
                IF Len(ts) >= 2 /\ ts[2].k = "}"
                THEN ParseOk(PyDict(<<>>), Tail(Tail(ts)))
                ELSE ParseMembers(Tail(ts), <<>>)
           [] OTHER -> ParseFail

ParseElements(ts, acc) ==
    LET e == ParseValue(ts) IN
    IF ~e.ok \/ e.rest = <<>> THEN ParseFail
    ELSE IF Head(e.rest).k = ","
         THEN ParseElements(Tail(e.rest), Append(acc, e.val))
    ELSE IF Head(e.rest).k = "]"
         THEN ParseOk(PyList(Append(acc, e.val)), Tail(e.rest))
    ELSE ParseFail

ParseMembers(ts, acc) ==
    IF Len(ts) < 3 \/ ts[1].k # "str" \/ ts[2].k # ":" THEN ParseFail
    ELSE LET e == ParseValue(Tail(Tail(ts))) IN
         IF ~e.ok \/ e.rest = <<>> THEN ParseFail
         ELSE IF Head(e.rest).k = ","
              THEN ParseMembers(Tail(e.rest), DictSet(acc, ts[1].s, e.val))
         ELSE IF Head(e.rest).k = "}"
              THEN ParseOk(PyDict(DictSet(acc, ts[1].s, e.val)), Tail(e.rest))
         ELSE ParseFail

\* resp.json(): ok = FALSE stands for JSONDecodeError.
loads(ts) ==
    LET r == ParseValue(ts) IN IF r.ok /\ r.rest = <<>> THEN r ELSE ParseFail

\* A requests.Response: the body it carries.
Response(text) == [received |-> TRUE, text |-> text]

\* No response (yet).
NoResponse == [received |-> FALSE, text |-> <<>>]

\* Response.__iter__ is iter_content(128): the body in chunks of bytes.
IterContent(resp) == IF resp.text = <<>> THEN {} ELSE {PyBytes(resp.text)}

\* `item in resp`: Response has no __contains__, so Python iterates it.
ResponseContains(resp, item) == \E c \in IterContent(resp) : PyEq(c, item)

(***************************************************************************)
(* URLs: urlparse, urljoin and str concatenation                           *)
(***************************************************************************)
Url(scheme, netloc, path) == [scheme |-> scheme, netloc |-> netloc, path |-> path]

\* urlparse("")
EmptyUrl == Url("", <<>>, <<"">>)

\* A path given to get / post / put, as urlparse sees it.
PathUrl(segs) == Url("", <<>>, segs)

Last(s) == s[Len(s)]

Front(s) == SubSeq(s, 1, Len(s) - 1)

\* segments[1:-1] = filter(None, segments[1:-1])
RECURSIVE DropEmpty(_)
DropEmpty(s) ==
    IF s = <<>> THEN <<>>
    ELSE IF Head(s) = "" THEN DropEmpty(Tail(s))
    ELSE <<Head(s)>> \o DropEmpty(Tail(s))

FilterMiddle(segs) ==
    IF Len(segs) <= 2 THEN segs
    ELSE <<segs[1]>> \o DropEmpty(SubSeq(segs, 2, Len(segs) - 1)) \o <<Last(segs)>>

\* urljoin's loop over the segments: ".." pops, "." is skipped.
RECURSIVE ResolveDots(_, _)
ResolveDots(segs, acc) ==
    IF segs = <<>> THEN acc
    ELSE IF Head(segs) = ".."
         THEN ResolveDots(Tail(segs), IF acc = <<>> THEN acc ELSE Front(acc))
    ELSE IF Head(segs) = "." THEN ResolveDots(Tail(segs), acc)
    ELSE ResolveDots(Tail(segs), Append(acc, Head(segs)))

\* urlunparse: behind a netloc a non-empty path starts with "/".
urlunparse(scheme, netloc, path) ==
    IF netloc # <<>> /\ path # <<"">> /\ path[1] # ""
    THEN Url(scheme, netloc, <<"">> \o path)
    ELSE Url(scheme, netloc, path)

urljoin(base, url) ==
    IF base = EmptyUrl THEN url
    ELSE IF url = EmptyUrl THEN base
    ELSE LET scheme == IF url.scheme = "" THEN base.scheme ELSE url.scheme IN
         IF scheme # base.scheme THEN url
         ELSE IF url.netloc # <<>> THEN urlunparse(scheme, url.netloc, url.path)
         ELSE IF url.path = <<"">> THEN urlunparse(scheme, base.netloc, base.path)
         ELSE LET base_parts == IF Last(base.path) # "" THEN Front(base.path)
                                ELSE base.path
                  segments == IF Len(url.path) >= 2 /\ url.path[1] = ""
                              THEN url.path
                              ELSE FilterMiddle(base_parts \o url.path)
                  resolved == ResolveDots(segments, <<>>)
                  resolved_path == IF Last(segments) \in {".", ".."}
                                   THEN Append(resolved, "") ELSE resolved
              IN urlunparse(scheme, base.netloc,
                     IF resolved_path \in {<<>>, <<"">>} THEN <<"", "">>
                     ELSE resolved_path)

\* url + suffix on strings: the suffix continues the URL's last segment.
UrlConcat(u, segs) ==
    IF u.path = <<"">>
    THEN Url(u.scheme, Front(u.netloc) \o <<Last(u.netloc) \o Head(segs)>>,
             <<"">> \o Tail(segs))
    ELSE Url(u.scheme, u.netloc,
             Front(u.path) \o <<Last(u.path) \o Head(segs)>> \o Tail(segs))

\* "v3/auth/token/"
TokenPath == <<"v3", "auth", "token", "">>

\* list + str, str + str
PyAdd(a, b) ==
    IF a.t = b.t /\ a.t = "str" THEN Returned(PyStr(a.v \o b.v))
    ELSE IF a.t = b.t /\ a.t = "list" THEN Returned(PyList(a.v \o b.v))
    ELSE Raised("TypeError", PyStr("can only concatenate " \o a.t \o " to " \o a.t))

\* netloc.split(":")
SplitNetloc(netloc) == PyList(IF netloc = <<>> THEN <<"">> ELSE netloc)

(***************************************************************************)
(* GalaxyClient                                                            *)
(***************************************************************************)
\* The class attributes: what an instance reads before __init__ assigns.
ClassAttrs ==
    [galaxy_root |-> EmptyUrl, headers |-> None, token |-> PyStr(""),
     docker_client |-> None]

\* The names bound where __init__ runs: its parameters, the targets of
\* `username, password = auth`, and the module's imports (lines 4-13).
InitScope(self, galaxy_root, auth, container_engine, container_registry) ==
    [self |-> self, galaxy_root |-> galaxy_root, auth |-> auth,
     container_engine |-> container_engine,
     container_registry |-> container_registry,
     username |-> auth.v[1], password |-> auth.v[2],
     JSONDecodeError |-> "class", dumps |-> "function", sys |-> "module",
     urlparse |-> "function", urljoin |-> "function", requests |-> "module",
     dockerutils |-> "module", users |-> "module", groups |-> "module",
     GalaxyClient |-> "class"]

\* Reading a name: its value, or NameError.
Lookup(scope, name) ==
    IF name \in DOMAIN scope THEN Returned(scope[name])
    ELSE Raised("NameError", PyStr("name '" \o name \o "' is not defined"))

\* dockerutils.DockerClient(auth, engine, registry): an opaque session.
DockerClient(auth, engine, registry) ==
    [t |-> "DockerClient",
     v |-> [auth |-> auth, engine |-> engine, registry |-> registry]]

\* f"{x}" for the values a token can be.
Format(x) ==
    CASE x.t = "None" -> "None"
      [] x.t = "str" -> x.v
      [] x.t = "int" -> PyStrInt(x.n)
      [] OTHER -> x.t

\* The request of the token exchange: requests.post(url, auth=...).
TokenRequest(url, auth) ==
    [method |-> "post", url |-> url, headers |-> PyDict(<<>>), data |-> None,
     auth |-> auth]

CtorResult(self, outcome, posted) ==
    [self |-> self, outcome |-> outcome, posted |-> posted]

\* Lines 43-49: the container-engine session.
InitContainer(self, scope, container_engine, container_registry, posted) ==
    IF ~Truthy(container_engine) THEN CtorResult(self, Returned(None), posted)
    ELSE LET dflt == IF Truthy(container_registry)
                     THEN Returned(container_registry)
                     ELSE PyAdd(SplitNetloc(self.galaxy_root.netloc),
                                PyStr(":5001"))
             user == Lookup(scope, "user")
         IN IF dflt.kind = "raise" THEN CtorResult(self, dflt, posted)
            ELSE IF user.kind = "raise" THEN CtorResult(self, user, posted)
            ELSE CtorResult(
                   [self EXCEPT !.docker_client =
                       DockerClient(<<user.value, scope.password>>,
                                    container_engine, dflt.value)],
                   Returned(None), posted)

\* Lines 34-41: the token out of the response, then the stored headers.
InitToken(self, scope, resp, container_engine, container_registry, posted) ==
    LET js == loads(resp.text)
        noGet == js.ok /\ js.val.t # "dict"
        token == IF ~js.ok THEN self.token
                 ELSE IF noGet THEN self.token
                 ELSE IF DictHas(js.val.v, "token") THEN DictGet(js.val.v, "token")
                 ELSE None
        s2 == [self EXCEPT
                 !.token = token,
                 !.headers = PyDict(DictMerge(self.headers.v,
                     << <<"Accept", "application/json">>,
                        <<"Authorization", "Token " \o Format(token)>> >>))]
    IN IF noGet
       THEN CtorResult(self,
                Raised("AttributeError", PyStr("object has no attribute 'get'")),
                posted)
       ELSE InitContainer(s2, scope, container_engine, container_registry, posted)

\* GalaxyClient.__init__; tokenText is what the token endpoint answers.
Init__(self, galaxy_root, auth, container_engine, container_registry, tokenText) ==
    LET s1 == [self EXCEPT !.galaxy_root = galaxy_root, !.headers = PyDict(<<>>)]
    IN IF ~Truthy(auth) THEN CtorResult(s1, Returned(None), <<>>)
       ELSE LET scope == InitScope(s1, galaxy_root, auth, container_engine,
                                   container_registry)
                url == UrlConcat(galaxy_root, TokenPath)
                user == Lookup(scope, "user")
            IN IF user.kind = "raise" THEN CtorResult(s1, user, <<>>)
               ELSE InitToken(s1, scope, Response(tokenText), container_engine,
                        container_registry,
                        <<TokenRequest(url, <<user.value, scope.password>>)>>)

\* A keyword argument that was not passed.
Absent == [t |-> "absent"]

\* kwargs.pop("headers", self.headers)
PopHeaders(self, headers) == IF headers.t = "absent" THEN self.headers ELSE headers

\* Lines 52-54: the request _http hands to requests.request.
HttpRequest(self, method, path, headers, data) ==
    [method |-> method, url |-> urljoin(self.galaxy_root, PathUrl(path)),
     headers |-> PopHeaders(self, headers), data |-> data]

\* _http with the parse failure swallowed: it prints and returns None.
HttpOutcome_Swallow(resp) ==
    LET json == loads(resp.text) IN
    IF ~json.ok THEN Returned(None)
    ELSE IF ResponseContains(resp, PyStr("errors"))
    THEN Raised("TypeError", PyStr("'Response' object is not subscriptable"))
    ELSE Returned(json.val)

\* Lines 55-63: what _http makes of the response.
HttpOutcome(resp) ==
    LET json == loads(resp.text) IN
    IF ~json.ok
    THEN Raised("ValueError", PyStr("Failed to parse JSON response from API"))
    ELSE IF ResponseContains(resp, PyStr("errors"))
    THEN Raised("TypeError", PyStr("'Response' object is not subscriptable"))
    ELSE Returned(json.val)

\* Lines 66-69: the body as bytes.
PayloadBody(body) ==
    LET b1 == IF body.t = "dict" THEN PyStr(dumps(body.v)) ELSE body
    IN IF b1.t = "str" THEN PyBytes(encode_utf8(b1.v)) ELSE b1

\* The headers with the caller's spread last, so that its own
\* Content-Type and Content-Length win over the computed ones.
PayloadHeaders_CallerWins(base, body) ==
    PyDict(DictMerge(
        << <<"Content-Type", "application/json;charset=utf-8">>,
           <<"Content-length", PyStrInt(Len(body.v))>> >>, base.v))

\* Lines 70-74: the headers of a mutating request.
PayloadHeaders(base, body) ==
    PyDict(DictMerge(base.v,
        << <<"Content-Type", "application/json;charset=utf-8">>,
           <<"Content-length", PyStrInt(Len(body.v))>> >>))

(***************************************************************************)
(* The inputs                                                              *)
(***************************************************************************)
BaseUrls ==
    {Url("https", <<"galaxy.example">>, <<"", "">>),
     Url("https", <<"hub.example", "8443">>, <<"", "api", "galaxy", "">>),
     Url("http", <<"localhost", "5001">>, <<"", "api", "automation-hub">>)}

Auths == {None, [t |-> "tuple", v |-> <<"u", "p">>]}

Engines == {None, PyStr("podman")}

Registries == {None, PyStr("registry.example:5000")}

Paths ==
    {<<"v3", "users", "">>, <<"", "api", "v3", "groups", "">>,
     <<"..", "_ui", "v1", "me", "">>, <<"">>}

HeaderOverrides ==
    {Absent,
     PyDict(<< <<"X-Request-Id", "1">> >>),
     PyDict(<< <<"Content-Type", "text/plain">>, <<"Content-Length", "999">>,
               <<"Authorization", "Token other">> >>)}

\* The characters of generated texts: 'a', '"' (escaped by dumps), e-acute
\* (one \u escape, 2 bytes in UTF-8), an emoji (a surrogate pair, 4 bytes).
Chars == {97, 34, 233, 128512}

RECURSIVE TextsOfLen(_)
TextsOfLen(n) ==
    IF n = 0 THEN {<<>>}
    ELSE {Append(s, c) : s \in TextsOfLen(n - 1), c \in Chars}

Texts == UNION {TextsOfLen(n) : n \in 0..MaxTextLen}

Keys == {<<107>>, <<233, 34>>}

Values == {PyStr(s) : s \in Texts} \cup {PyInt(0), PyInt(1205)}

DictBodies ==
    {PyDict(<<>>)}
    \cup {PyDict(<< <<k, x>> >>) : k \in Keys, x \in Values}
    \cup {PyDict(<< <<<<107>>, x>>, <<<<233, 34>>, y>> >>) :
             x \in {PyStr(<<8364>>), PyInt(7)}, y \in {PyStr(<<>>), PyStr(<<97, 128512>>)}}

RawBodies ==
    {PyStr(<<>>), PyStr(<<97, 233, 8364, 128512>>), PyBytes(<<123, 125>>)}

Bodies == DictBodies \cup RawBodies

ErrorEntry(title) ==
    <<Tk("{"), TStr("status"), Tk(":"), TStr("403"), Tk(","), TStr("title"),
      Tk(":"), TStr(title), Tk("}")>>

ResponseTexts ==
    {<<Tk("{"), TStr("token"), Tk(":"), TStr("abc"), Tk("}")>>,
     <<Tk("{"), TStr("count"), Tk(":"), TInt(1), Tk(","), TStr("data"), Tk(":"),
       Tk("["), Tk("{"), TStr("username"), Tk(":"), TStr("u"), Tk("}"), Tk("]"),
       Tk("}")>>,
     <<Tk("["), Tk("]")>>,
     <<TStr("errors")>>,
     <<Tk("{"), TStr("errors"), Tk(":"), Tk("[")>> \o ErrorEntry("X")
        \o <<Tk("]"), Tk("}")>>,
     <<Tk("{"), TStr("errors"), Tk(":"), Tk("[")>> \o ErrorEntry("Y")
        \o <<Tk(",")>> \o ErrorEntry("X") \o <<Tk("]"), Tk("}")>>,
     <<Tk("{"), TStr("errors"), Tk(":"), Tk("["), Tk("]"), Tk("}")>>,
     <<>>,
     <<Tk("<")>>,
     <<Tk("{"), TStr("token"), Tk(":")>>,
     <<Tk("{"), Tk("}"), Tk("]")>>}

ImageNames == {"alpine", "ee-minimal"}

(***************************************************************************)
(* The state                                                               *)
(***************************************************************************)
VARIABLES
    pc,       \* "new", "failed", "ready", "waiting", "responded"
    self,     \* the instance's attributes
    ctor,     \* the constructor call: its arguments and how it ended
    call,     \* the get / post / put in progress
    request,  \* the request that call handed to requests.request
    nreq,     \* requests issued since the last call began
    resp,     \* the response to the request
    result    \* how the last call ended

vars == <<pc, self, ctor, call, request, nreq, resp, result>>

NoCall == [op |-> "", path |-> <<>>, body |-> None, headers |-> Absent]

\* A call that is over: its arguments are gone, its name is remembered.
Ended(c) == [NoCall EXCEPT !.op = c.op]

NoRequest == [method |-> "", url |-> EmptyUrl, headers |-> None, data |-> None]

NoCtor ==
    [galaxy_root |-> EmptyUrl, auth |-> None, container_engine |-> None,
     container_registry |-> None, tokenText |-> <<>>, outcome |-> NoOutcome,
     self |-> ClassAttrs, posted |-> <<>>]

Init ==
    /\ pc = "new"
    /\ self = ClassAttrs
    /\ ctor = NoCtor
    /\ call = NoCall
    /\ request = NoRequest
    /\ nreq = 0
    /\ resp = NoResponse
    /\ result = NoOutcome

\* GalaxyClient(galaxy_root, auth, container_engine, container_registry)
Construct(galaxy_root, auth, container_engine, container_registry, tokenText) ==
    /\ pc = "new"
    /\ LET r == Init__(ClassAttrs, galaxy_root, auth, container_engine,
                       container_registry, tokenText)
       IN /\ self' = r.self
          /\ ctor' = [galaxy_root |-> galaxy_root, auth |-> auth,
                      container_engine |-> container_engine,
                      container_registry |-> container_registry,
                      tokenText |-> tokenText, outcome |-> r.outcome,
                      self |-> r.self, posted |-> r.posted]
          /\ pc' = IF r.outcome.kind = "return" THEN "ready" ELSE "failed"
    /\ UNCHANGED <<call, request, nreq, resp, result>>

\* get(path, headers=...): _http("get", path, ...) up to requests.request.
Get(path, headers) ==
    /\ pc = "ready"
    /\ call' = [op |-> "get", path |-> path, body |-> None, headers |-> headers]
    /\ request' = HttpRequest(self, "get", path, headers, None)
    /\ nreq' = 1
    /\ resp' = NoResponse
    /\ result' = NoOutcome
    /\ pc' = "waiting"
    /\ UNCHANGED <<self, ctor>>

\* _payload updating the popped mapping in place: without an override that
\* mapping is self.headers itself.
Payload_InPlace(method, path, body, headers) ==
    /\ pc = "ready"
    /\ LET data == PayloadBody(body)
           hdrs == PayloadHeaders(PopHeaders(self, headers), data)
       IN /\ request' = HttpRequest(self, method, path, hdrs, data)
          /\ self' = IF headers.t = "absent" THEN [self EXCEPT !.headers = hdrs]
                     ELSE self
    /\ call' = [op |-> method, path |-> path, body |-> body, headers |-> headers]
    /\ nreq' = 1
    /\ resp' = NoResponse
    /\ result' = NoOutcome
    /\ pc' = "waiting"
    /\ UNCHANGED ctor

\* post / put (path, body, headers=...): _payload, then _http up to
\* requests.request.
Payload(method, path, body, headers) ==
    /\ pc = "ready"
    /\ LET data == PayloadBody(body)
           hdrs == PayloadHeaders(PopHeaders(self, headers), data)
       IN request' = HttpRequest(self, method, path, hdrs, data)
    /\ call' = [op |-> method, path |-> path, body |-> body, headers |-> headers]
    /\ nreq' = 1
    /\ resp' = NoResponse
    /\ result' = NoOutcome
    /\ pc' = "waiting"
    /\ UNCHANGED <<self, ctor>>

\* The server answers with a body.
Respond(text) ==
    /\ pc = "waiting"
    /\ resp' = Response(text)
    /\ pc' = "responded"
    /\ UNCHANGED <<self, ctor, call, request, nreq, result>>

\* requests.request raises instead (no connection): _http lets it through.
ConnectionFails ==
    /\ pc = "waiting"
    /\ result' = Raised("ConnectionError", PyStr("connection failed"))
    /\ pc' = "ready"
    /\ call' = Ended(call)
    /\ request' = NoRequest
    /\ UNCHANGED <<self, ctor, nreq, resp>>

\* _http sending the request again when the body does not parse.
HttpFinish_Retry ==
    /\ pc = "responded"
    /\ IF loads(resp.text).ok
       THEN /\ result' = HttpOutcome(resp)
            /\ pc' = "ready"
            /\ call' = Ended(call)
            /\ request' = NoRequest
            /\ UNCHANGED <<nreq, resp>>
       ELSE /\ nreq' = nreq + 1
            /\ resp' = NoResponse
            /\ pc' = "waiting"
            /\ UNCHANGED <<call, request, result>>
    /\ UNCHANGED <<self, ctor>>

\* _http from resp.json() to its return or raise.
HttpFinish ==
    /\ pc = "responded"
    /\ result' = HttpOutcome(resp)
    /\ pc' = "ready"
    /\ call' = Ended(call)
    /\ request' = NoRequest
    /\ UNCHANGED <<self, ctor, nreq, resp>>

\* pull_image / tag_image / push_image: self.docker_client.<op>(...)
ImageCall(op, image) ==
    /\ pc = "ready"
    /\ result' = IF self.docker_client.t = "None"
                 THEN Raised("AttributeError",
                        PyStr("'NoneType' object has no attribute '" \o op \o "'"))
                 ELSE Returned([t |-> "docker", v |-> <<op, image>>])
    /\ nreq' = 0
    /\ resp' = NoResponse
    /\ call' = [NoCall EXCEPT !.op = op]
    /\ UNCHANGED <<pc, self, ctor, request>>

Next ==
    \/ \E g \in BaseUrls, a \in Auths, e \in Engines, r \in Registries :
         \E t \in (IF Truthy(a) THEN ResponseTexts ELSE {<<>>}) :
            Construct(g, a, e, r, t)
    \/ \E p \in Paths, h \in HeaderOverrides : Get(p, h)
    \/ \E p \in Paths, b \in Bodies, h \in HeaderOverrides : Payload("post", p, b, h)
    \/ \E p \in Paths, b \in Bodies, h \in HeaderOverrides : Payload("put", p, b, h)
    \/ \E t \in ResponseTexts : Respond(t)
    \/ ConnectionFails
    \/ HttpFinish
    \/ \E i \in ImageNames : ImageCall("pull_image", i)
    \/ \E i \in ImageNames : ImageCall("tag_image", i)
    \/ \E i \in ImageNames : ImageCall("push_image", i)

Spec == Init /\ [][Next]_vars

(***************************************************************************)
(* The properties                                                          *)
(***************************************************************************)
\* HTTP field names are case-insensitive.
LowerName(n) ==
    CASE n = "Accept" -> "accept"
      [] n = "Authorization" -> "authorization"
      [] n = "Content-Type" -> "content-type"
      [] n = "Content-length" -> "content-length"
      [] n = "Content-Length" -> "content-length"
      [] n = "X-Request-Id" -> "x-request-id"
      [] OTHER -> n

\* The field the server reads: of several spellings the last one set; ""
\* when the field is not sent.
HeaderField(d, lname) ==
    LET idx == {i \in 1..Len(d) : LowerName(d[i][1]) = lname} IN
    IF idx = {} THEN ""
    ELSE d[CHOOSE i \in idx : \A j \in idx : j <= i][2]

InFlight == pc \in {"waiting", "responded"}

HttpOps == {"get", "post", "put"}

\* A get / post / put has just ended with a response received.
Answered == pc = "ready" /\ call.op \in HttpOps /\ resp.received

CtorEnded == ctor.outcome.kind # "none"

\* The token of a token-endpoint body {"token": "<T>", ...}; "" otherwise.
TokenOf(text) ==
    LET js == loads(text) IN
    IF js.ok /\ js.val.t = "dict" /\ DictHas(js.val.v, "token")
       /\ DictGet(js.val.v, "token").t = "str"
    THEN DictGet(js.val.v, "token").v ELSE ""

\* The body parses to a mapping with an errors list.
CarriesErrors(text) ==
    LET js == loads(text) IN
    js.ok /\ js.val.t = "dict" /\ DictHas(js.val.v, "errors")
    /\ DictGet(js.val.v, "errors").t = "list"

\* The title of the first entry of a non-empty errors list; "" otherwise.
FirstErrorTitle(text) ==
    IF CarriesErrors(text)
    THEN LET l == DictGet(loads(text).val.v, "errors").v IN
         IF l # <<>> /\ l[1].t = "dict" /\ DictHas(l[1].v, "title")
            /\ DictGet(l[1].v, "title").t = "str"
         THEN DictGet(l[1].v, "title").v ELSE ""
    ELSE ""

\* C1: constructing a client with credentials, the token endpoint answering
\* valid JSON with a token T, completes without raising and leaves the
\* headers Accept = application/json and Authorization = "Token T".
C1_AuthorizationPopulated ==
    (CtorEnded /\ Truthy(ctor.auth) /\ TokenOf(ctor.tokenText) # "")
    => /\ ctor.outcome.kind = "return"
       /\ self.headers =
            PyDict(<< <<"Accept", "application/json">>,
                      <<"Authorization", "Token " \o TokenOf(ctor.tokenText)>> >>)

\* C2: a get / post / put whose response body is not valid JSON fails with
\* ValueError and returns nothing; one whose body is valid JSON with no
\* errors list returns the parsed value unchanged.
C2_ParseOrFail ==
    Answered =>
      IF ~loads(resp.text).ok
      THEN result.kind = "raise" /\ result.exc = "ValueError"
           /\ result.value = None
      ELSE ~CarriesErrors(resp.text)
           => result = Returned(loads(resp.text).val)

\* A call has failed with ValueError on a body that is not JSON.
C2_Witness ==
    /\ Answered /\ call.op = "put"
    /\ resp.text = <<Tk("{"), TStr("token"), Tk(":")>>
    /\ result.kind = "raise" /\ result.exc = "ValueError"

\* C3: a get / post / put whose response parses to a mapping with a
\* non-empty errors list fails, and the failure carries the first entry's
\* title as its message.
C3_RemoteErrorRaised ==
    (Answered /\ FirstErrorTitle(resp.text) # "")
    => /\ result.kind = "raise"
       /\ result.msg = PyStr(FirstErrorTitle(resp.text))

\* C4: with credentials and a token response that is not valid JSON,
\* construction does not raise, the token keeps its initial empty value and
\* the client is ready, its Authorization header holding no token.
C4_DegradedConstruction ==
    (CtorEnded /\ Truthy(ctor.auth) /\ ~loads(ctor.tokenText).ok)
    => /\ ctor.outcome.kind = "return"
       /\ pc # "failed"
       /\ self.token = PyStr("")
       /\ HeaderField(self.headers.v, "authorization") = "Token "

\* The number of bytes UTF-8 needs for a code point.
Utf8Width(c) == IF c < 128 THEN 1 ELSE IF c < 2048 THEN 2 ELSE IF c < 65536 THEN 3 ELSE 4

RECURSIVE ByteLength(_)
ByteLength(s) == IF s = <<>> THEN 0 ELSE Utf8Width(Head(s)) + ByteLength(Tail(s))

\* C5: a post / put with a mapping body sends as payload the UTF-8 bytes of
\* the body's JSON serialization, Content-Length is the number of those
\* bytes, and Content-Type is application/json;charset=utf-8: with the
\* stored headers and with a headers override alike.
C5_PayloadHeaders ==
    (InFlight /\ call.op \in {"post", "put"} /\ call.body.t = "dict")
    => /\ request.data = PyBytes(encode_utf8(dumps(call.body.v)))
       /\ \A i \in 1..Len(request.data.v) : request.data.v[i] \in 0..255
       /\ HeaderField(request.headers.v, "content-length")
            = PyStrInt(ByteLength(dumps(call.body.v)))
       /\ HeaderField(request.headers.v, "content-length")
            = PyStrInt(Len(request.data.v))
       /\ HeaderField(request.headers.v, "content-type")
            = "application/json;charset=utf-8"

\* A post of a mapping, under an override that names its own Content-Type
\* and Content-Length, is on the wire.
C5_Witness ==
    /\ pc = "waiting" /\ call.op = "post"
    /\ call.body = PyDict(<< <<<<233, 34>>, PyStr(<<128512>>)>> >>)
    /\ call.headers.t = "dict" /\ DictHas(call.headers.v, "Content-Length")
    /\ HeaderField(request.headers.v, "content-length") = "28"
    /\ Len(request.data.v) = 28

\* The pairs of headers a are among those of b.
HeadersWithin(a, b) ==
    \A i \in 1..Len(a) : DictHas(b, a[i][1]) /\ DictGet(b, a[i][1]) = a[i][2]

\* C6: a client constructed with credentials and token T sends, on every
\* get / post / put without a headers override, the stored headers, so
\* Authorization = "Token T" and Accept = application/json; with an
\* override the request carries the override instead.
C6_StoredHeadersSent ==
    /\ (CtorEnded /\ Truthy(ctor.auth) /\ TokenOf(ctor.tokenText) # "")
       => /\ pc # "failed"
          /\ HeaderField(self.headers.v, "authorization")
               = "Token " \o TokenOf(ctor.tokenText)
          /\ HeaderField(self.headers.v, "accept") = "application/json"
    /\ (InFlight /\ call.headers.t = "absent")
       => /\ HeadersWithin(self.headers.v, request.headers.v)
          /\ call.op = "get" => request.headers = self.headers
    /\ (InFlight /\ call.headers.t = "dict")
       => /\ call.op = "get" => request.headers = call.headers
          /\ \A i \in 1..Len(call.headers.v) :
               LowerName(call.headers.v[i][1]) \notin {"content-type", "content-length"}
               => /\ DictHas(request.headers.v, call.headers.v[i][1])
                  /\ DictGet(request.headers.v, call.headers.v[i][1])
                       = call.headers.v[i][2]

HasDots(segs) == \E i \in 1..Len(segs) : segs[i] \in {".", ".."}

\* C7: get / post / put address the URL-join of the base URL and the path:
\* a relative path is resolved against the base's directory, an absolute
\* one replaces the base's path, scheme and host kept; and the token
\* exchange addresses the base URL followed by v3/auth/token/.
C7_RequestUrl ==
    /\ InFlight
       => /\ request.url.scheme = self.galaxy_root.scheme
          /\ request.url.netloc = self.galaxy_root.netloc
          /\ (Len(call.path) >= 2 /\ call.path[1] = "")
             => request.url.path = call.path
          /\ (call.path[1] # "" /\ ~HasDots(call.path))
             => request.url.path = Front(self.galaxy_root.path) \o call.path
    /\ (CtorEnded /\ Truthy(ctor.auth))
       => /\ Len(ctor.posted) = 1
          /\ ctor.posted[1].url = UrlConcat(ctor.galaxy_root, TokenPath)

ImageOps == {"pull_image", "tag_image", "push_image"}

\* C8: a client constructed with a container-engine option holds a session
\* made with the same credentials, the chosen engine, and as registry the
\* caller's or else the base URL's host followed by ":5001"; pull_image,
\* tag_image and push_image forward to that session.
C8_ContainerSession ==
    /\ (CtorEnded /\ Truthy(ctor.auth) /\ Truthy(ctor.container_engine))
       => /\ ctor.outcome.kind = "return"
          /\ self.docker_client.t = "DockerClient"
          /\ self.docker_client.v.auth = ctor.auth.v
          /\ self.docker_client.v.engine = ctor.container_engine
          /\ self.docker_client.v.registry =
               IF Truthy(ctor.container_registry) THEN ctor.container_registry
               ELSE PyStr(ctor.galaxy_root.netloc[1] \o ":5001")
    /\ (pc = "ready" /\ call.op \in ImageOps /\ Truthy(ctor.container_engine))
       => result.kind = "return"

\* C9: get / post / put leave the client as construction left it: stored
\* headers, base URL, token and container-engine handle; post / put add
\* neither Content-Type nor Content-Length to the stored headers.
C9_SessionUnchanged ==
    pc \in {"ready", "waiting", "responded"}
    => /\ self = ctor.self
       /\ HeaderField(self.headers.v, "content-type") = ""
       /\ HeaderField(self.headers.v, "content-length") = ""

\* A post has ended and returned the parsed body; the client is as
\* construction left it.
C9_Witness ==
    /\ Answered /\ call.op = "post" /\ result.kind = "return"
    /\ self = ctor.self /\ self.headers = PyDict(<<>>)

=============================================================================
